---- MODULE Spec2Model ----
(***************************************************************************)
(* Model of src/num_ext/mod.rs (rcrypt): mod_exp, gcdext, is_prime_helper, *)
(* miller_rabin (sequential and threaded), miller_rabin_thread and         *)
(* next_prime_helper.  BigUint values are unbounded naturals; a BigUint    *)
(* subtraction that would go below zero panics.                            *)
(***************************************************************************)
EXTENDS Naturals, Integers, Sequences, FiniteSets

VARIABLES
    op,         \* the function being called
    thread,     \* the `thread` flag handed to the helpers
    args,       \* the call's arguments
    pc,         \* position of the calling thread
    cand,       \* the n under test in is_prime_helper / miller_rabin
    d, s,       \* the decomposition computed by miller_rabin
    spawned,    \* iterations done of the spawn loop
    running,    \* spawned workers of this miller_rabin call not yet finished
    crashed,    \* workers of this call that ended without sending
    chan,       \* results queued in the mpsc channel of this call
    got,        \* the results the recv loop has taken so far, in order
    rounds,     \* Miller-Rabin rounds executed for this miller_rabin call
    lastA,      \* witness of the last round of a sequential run
    squarings,  \* squarings compared with n - 1 in that last round
    orphans,    \* workers still running after their miller_rabin call returned
    discarded,  \* sends made after the receiver was dropped
    mrCalls,    \* number of times miller_rabin was entered
    result      \* the value returned (valid when pc = "done")

vars == <<op, thread, args, pc, cand, d, s, spawned, running, crashed, chan,
          got, rounds, lastA, squarings, orphans, discarded, mrCalls, result>>

\* ------------------------------------------------------------------ bounds
MaxN == 30
MaxBase == 6
MaxExp == 6
MaxMod == 6
MaxGcd == 6

\* ------------------------------------------------------- program constants
Rounds == 100
SpawnCount == 8
\* a recv loop one iteration short of the spawn loop
RecvCountShort == SpawnCount - 1
RecvCount == 8
RoundsDivisor == 8

\* -------------------------------------------------------------- mod_exp
RECURSIVE ModExpLoop(_, _, _, _)
ModExpLoop(res, base_acc, exp_acc, modulus) ==
    IF exp_acc > 0
    THEN ModExpLoop(IF exp_acc % 2 = 1 THEN (res * base_acc) % modulus ELSE res,
                    (base_acc * base_acc) % modulus,
                    exp_acc \div 2,
                    modulus)
    ELSE res

ModExp(base, exponent, modulus) == ModExpLoop(1, base, exponent, modulus)

\* --------------------------------------------------------------- gcdext
GcdExt(a, b) == <<0, 0, 0>>

\* --------------------------------------------------------- miller_rabin
\* `while d.is_even()`; with d = 0 the loop never ends, which miller_rabin's
\* entry models as pc = "hang" before using this operator
RECURSIVE DecomposeLoop(_, _)
DecomposeLoop(dd, ss) ==
    IF dd % 2 = 0 /\ dd > 0
    THEN DecomposeLoop(dd \div 2, ss + 1)
    ELSE [d |-> dd, s |-> ss]

\* the decomposition with `d = d >> 2` in place of `d = d >> 1`
RECURSIVE DecomposeLoopShift2(_, _)
DecomposeLoopShift2(dd, ss) ==
    IF dd % 2 = 0 /\ dd > 0
    THEN DecomposeLoopShift2(dd \div 4, ss + 1)
    ELSE [d |-> dd, s |-> ss]

DecomposeShift2(n) == DecomposeLoopShift2(n - 1, 0)

Decompose(n) == DecomposeLoop(n - 1, 0)

PerWorkerRounds(k) == k \div RoundsDivisor

\* gen_biguint_range(&two, &(n - &two)): lower bound included, upper excluded
WitnessRange(n) == 2 .. (n - 3)

\* the inner loop of one round: x is squared, then compared
RECURSIVE SquareLoop(_, _, _, _, _)
SquareLoop(n, ss, x, i, checked) ==
    LET x2 == ModExp(x, 2, n) IN
    IF x2 = 1 THEN [out |-> "fail", checked |-> checked]
    ELSE IF ss = 0 THEN [out |-> "panic", checked |-> checked]
    ELSE IF i = ss - 1 THEN [out |-> "fail", checked |-> checked]
    ELSE IF x2 = n - 1 THEN [out |-> "pass", checked |-> checked + 1]
    ELSE SquareLoop(n, ss, x2, i + 1, checked + 1)

\* the round without the `x == one` test before the inner loop
RoundNoOneTest(n, dd, ss, a) ==
    LET x == ModExp(a, dd, n) IN
    IF x = n - 1
    THEN [out |-> "pass", checked |-> 0]
    ELSE SquareLoop(n, ss, x, 0, 0)

\* one iteration of the `for _ in 0..k` loop with witness a
Round(n, dd, ss, a) ==
    LET x == ModExp(a, dd, n) IN
    IF x = 1 \/ x = n - 1
    THEN [out |-> "pass", checked |-> 0]
    ELSE SquareLoop(n, ss, x, 0, 0)

Outcome(p, r, k, a, c) == [panic |-> p, result |-> r, rounds |-> k, a |-> a, checked |-> c]

\* the `for _ in 0..k` loop: iteration j (1-based) is reached when the j - 1
\* before it each drew a witness whose round passes; table[a] is what an
\* iteration does when it draws a.  An iteration that fails returns false at
\* once, one that panics ends the thread, and after k passes the result is true.
RunRounds(n, table, k) ==
    IF k = 0 THEN {Outcome(FALSE, TRUE, 0, 0, 0)}
    ELSE IF n < 2 \/ ~(2 < n - 2) THEN {Outcome(TRUE, FALSE, 0, 0, 0)}
    ELSE UNION {
           {Outcome(table[a].out = "panic", FALSE, j, a, table[a].checked) :
                a \in DOMAIN table \ pass,
                j \in IF pass = {} THEN {1} ELSE 1 .. k}
           \cup
           {Outcome(FALSE, TRUE, k, a, table[a].checked) : a \in pass}
         : pass \in {{a \in DOMAIN table : table[a].out = "pass"}} }

\* every way miller_rabin_thread(n, d, s, k) can end, over the witnesses drawn
MillerRabinThread(n, dd, ss, k) ==
    UNION {RunRounds(n, table, k) :
               table \in {[a \in WitnessRange(n) |-> Round(n, dd, ss, a)]}}

\* ------------------------------------------------------ is_prime_helper
\* is_prime_helper without the parity test
SpecialCaseNoParity(n) ==
    IF n = 3 \/ n = 2 THEN "true"
    ELSE IF n < 2 THEN "false"
    ELSE "mr"

\* what is_prime_helper decides before miller_rabin: "true", "false" or "mr"
SpecialCase(n) ==
    IF n = 3 \/ n = 2 THEN "true"
    ELSE IF n < 2 \/ n % 2 = 0 THEN "false"
    ELSE "mr"

\* next_prime_helper's first candidate
FirstCandidate(n) == IF n % 2 = 0 THEN n + 1 ELSE n + 2

\* Senders of the channel still alive while miller_rabin waits: the `tx` of
\* line 90, which lives until miller_rabin returns, and one clone per worker
\* that has not finished
Senders == 1 + running

\* ------------------------------------------------------------------ Init
Ops == {"mod_exp", "gcdext", "is_prime_helper", "next_prime_helper"}

ArgsOf(o) ==
    CASE o = "mod_exp" -> (0 .. MaxBase) \X (0 .. MaxExp) \X (1 .. MaxMod)
      [] o = "gcdext" -> (0 .. MaxGcd) \X (0 .. MaxGcd)
      [] OTHER -> {<<n>> : n \in 0 .. MaxN}

Start(o, th, a) ==
    /\ op = o /\ thread = th /\ args = a
    /\ pc = "call"
    /\ cand = 0 /\ d = 0 /\ s = 0
    /\ spawned = 0 /\ running = 0 /\ crashed = 0
    /\ chan = <<>> /\ got = <<>> /\ rounds = 0
    /\ lastA = 0 /\ squarings = 0
    /\ orphans = 0 /\ discarded = 0 /\ mrCalls = 0
    /\ result = CASE o = "gcdext" -> <<0, 0, 0>>
                  [] o = "is_prime_helper" -> FALSE
                  [] OTHER -> 0

Init ==
    \E o \in Ops : \E a \in ArgsOf(o) : \E th \in BOOLEAN :
        /\ o \in {"mod_exp", "gcdext"} => th = FALSE
        /\ Start(o, th, a)

\* --------------------------------------------------------------- actions
mrVars == <<d, s, spawned, running, crashed, chan, got, rounds, lastA,
            squarings, mrCalls>>

CallModExp ==
    /\ pc = "call" /\ op = "mod_exp"
    /\ result' = ModExp(args[1], args[2], args[3])
    /\ pc' = "done"
    /\ UNCHANGED <<op, thread, args, cand, orphans, discarded>>
    /\ UNCHANGED mrVars

CallGcdExt ==
    /\ pc = "call" /\ op = "gcdext"
    /\ result' = GcdExt(args[1], args[2])
    /\ pc' = "done"
    /\ UNCHANGED <<op, thread, args, cand, orphans, discarded>>
    /\ UNCHANGED mrVars

\* is_prime(n) / is_prime_helper(n, thread) called directly
CallIsPrime ==
    /\ pc = "call" /\ op = "is_prime_helper"
    /\ cand' = args[1]
    /\ pc' = "is_prime"
    /\ UNCHANGED <<op, thread, args, orphans, discarded, result>>
    /\ UNCHANGED mrVars

\* next_prime_helper up to its first call of is_prime_helper
CallNextPrime ==
    /\ pc = "call" /\ op = "next_prime_helper"
    /\ cand' = FirstCandidate(args[1])
    /\ pc' = "is_prime"
    /\ UNCHANGED <<op, thread, args, orphans, discarded, result>>
    /\ UNCHANGED mrVars

\* is_prime_helper returns b to its caller: the end of a direct call, or one
\* test of next_prime_helper's while loop
Return(b) ==
    IF op = "is_prime_helper"
    THEN pc' = "done" /\ result' = b /\ cand' = cand
    ELSE IF b
         THEN pc' = "done" /\ result' = cand /\ cand' = cand
         ELSE pc' = "is_prime" /\ result' = result /\ cand' = cand + 2

IsPrimeHelper ==
    /\ pc = "is_prime"
    /\ IF SpecialCase(cand) = "mr"
       THEN pc' = "miller_rabin" /\ UNCHANGED <<cand, result>>
       ELSE Return(SpecialCase(cand) = "true")
    /\ UNCHANGED <<op, thread, args, orphans, discarded>>
    /\ UNCHANGED mrVars

\* miller_rabin up to `if thread`: the channel and the decomposition
MillerRabin ==
    /\ pc = "miller_rabin"
    /\ mrCalls' = mrCalls + 1
    /\ chan' = <<>> /\ got' = <<>> /\ spawned' = 0 /\ running' = 0
    /\ crashed' = 0 /\ rounds' = 0 /\ lastA' = 0 /\ squarings' = 0
    /\ IF cand < 1 THEN pc' = "panicked" /\ UNCHANGED <<d, s>>
       ELSE IF cand = 1 THEN pc' = "hang" /\ UNCHANGED <<d, s>>
       ELSE /\ d' = Decompose(cand).d
            /\ s' = Decompose(cand).s
            /\ pc' = IF thread THEN "spawn" ELSE "seq"
    /\ UNCHANGED <<op, thread, args, cand, orphans, discarded, result>>

\* the sequential branch: miller_rabin_thread(n, &d, &s, k) on the caller's thread
MillerRabinSequential ==
    /\ pc = "seq"
    /\ \E o \in MillerRabinThread(cand, d, s, Rounds) :
        /\ rounds' = o.rounds /\ lastA' = o.a /\ squarings' = o.checked
        /\ IF o.panic
           THEN pc' = "panicked" /\ UNCHANGED <<cand, result>>
           ELSE Return(o.result)
    /\ UNCHANGED <<op, thread, args, d, s, spawned, running, crashed, chan,
                   got, orphans, discarded, mrCalls>>

\* one iteration of the spawn loop
Spawn ==
    /\ pc = "spawn"
    /\ spawned' = spawned + 1
    /\ running' = running + 1
    /\ pc' = IF spawned + 1 = SpawnCount THEN "recv" ELSE "spawn"
    /\ UNCHANGED <<op, thread, args, cand, d, s, crashed, chan, got, rounds,
                   lastA, squarings, orphans, discarded, mrCalls, result>>

\* a worker handed shared_s and shared_d in each other's place
WorkerRunSwapped ==
    /\ running > 0
    /\ \E o \in {[panic |-> x.panic, result |-> x.result, rounds |-> x.rounds] :
                    x \in MillerRabinThread(cand, s, d, PerWorkerRounds(Rounds))} :
        /\ rounds' = rounds + o.rounds
        /\ IF o.panic
           THEN crashed' = crashed + 1 /\ chan' = chan
           ELSE crashed' = crashed /\ chan' = Append(chan, o.result)
    /\ running' = running - 1
    /\ UNCHANGED <<op, thread, args, pc, cand, d, s, spawned, got, lastA,
                   squarings, orphans, discarded, mrCalls, result>>

\* a worker of the current call: miller_rabin_thread(.., k/8), then tx.send
WorkerRun ==
    /\ running > 0
    /\ \E o \in {[panic |-> x.panic, result |-> x.result, rounds |-> x.rounds] :
                    x \in MillerRabinThread(cand, d, s, PerWorkerRounds(Rounds))} :
        /\ rounds' = rounds + o.rounds
        /\ IF o.panic
           THEN crashed' = crashed + 1 /\ chan' = chan
           ELSE crashed' = crashed /\ chan' = Append(chan, o.result)
    /\ running' = running - 1
    /\ UNCHANGED <<op, thread, args, pc, cand, d, s, spawned, got, lastA,
                   squarings, orphans, discarded, mrCalls, result>>

\* a worker whose miller_rabin call has returned: its send finds the receiver
\* dropped, and the Err it gets back is ignored
OrphanRun ==
    /\ orphans > 0
    /\ orphans' = orphans - 1
    /\ discarded' = discarded + 1
    /\ UNCHANGED <<op, thread, args, pc, cand, result>>
    /\ UNCHANGED mrVars

\* one iteration of the recv loop; the `true` after the loop with the last one
Recv ==
    /\ pc = "recv"
    /\ IF chan # <<>>
       THEN /\ got' = Append(got, Head(chan))
            /\ IF ~Head(chan)
               THEN /\ Return(FALSE)
                    /\ chan' = <<>>
                    /\ orphans' = orphans + running /\ running' = 0
               ELSE IF Len(got) + 1 = RecvCount
               THEN /\ Return(TRUE)
                    /\ chan' = <<>>
                    /\ orphans' = orphans + running /\ running' = 0
               ELSE /\ chan' = Tail(chan)
                    /\ UNCHANGED <<pc, cand, result, orphans, running>>
       ELSE \* recv() blocks while a Sender is alive, and is Err once none is
            /\ Senders = 0
            /\ pc' = "panicked"
            /\ UNCHANGED <<cand, result, chan, got, orphans, running>>
    /\ UNCHANGED <<op, thread, args, d, s, spawned, crashed, rounds, lastA,
                   squarings, discarded, mrCalls>>

\* a worker thread dies before its tx.send (an environment fault)
WorkerPanic ==
    /\ running > 0
    /\ running' = running - 1
    /\ crashed' = crashed + 1
    /\ UNCHANGED <<op, thread, args, pc, cand, d, s, spawned, chan, got,
                   rounds, lastA, squarings, orphans, discarded, mrCalls, result>>

Next ==
    \/ CallModExp
    \/ CallGcdExt
    \/ CallIsPrime
    \/ CallNextPrime
    \/ IsPrimeHelper
    \/ MillerRabin
    \/ MillerRabinSequential
    \/ Spawn
    \/ WorkerRun
    \/ OrphanRun
    \/ Recv

Spec == Init /\ [][Next]_vars

\* ------------------------------------------- the threaded test on its own
\* is_prime_helper(n, true) alone, with the scheduler's fairness
InitThreaded ==
    \E n \in 0 .. MaxN : Start("is_prime_helper", TRUE, <<n>>)

NextThreaded ==
    \/ CallIsPrime
    \/ IsPrimeHelper
    \/ MillerRabin
    \/ Spawn
    \/ WorkerRun
    \/ OrphanRun
    \/ Recv

\* No cycle is possible (every step consumes a loop iteration, a worker or a
\* message), so weak fairness of the whole step relation is all that a
\* scheduler which keeps running some runnable thread needs to provide
Fairness == WF_vars(NextThreaded)

SpecThreaded == InitThreaded /\ [][NextThreaded]_vars /\ Fairness

\* the same, where a worker may also die before it sends; a fault is never
\* forced to happen
NextFault ==
    \/ NextThreaded
    \/ WorkerPanic

SpecFault == InitThreaded /\ [][NextFault]_vars /\ Fairness

\* ------------------------------------------------------------ references
RECURSIVE RefPow(_, _)
RefPow(b, e) == IF e = 0 THEN 1 ELSE b * RefPow(b, e - 1)

\* b^e mod m by repeated multiplication, reduced at every step
RECURSIVE RefPowMod(_, _, _)
RefPowMod(b, e, m) == IF e = 0 THEN 1 % m ELSE (b * RefPowMod(b, e - 1, m)) % m

IsPrimeRef(n) == n >= 2 /\ \A k \in 2 .. (n - 1) : n % k # 0

Divides(k, n) == \E q \in 0 .. n : k * q = n

RefGcd(a, b) ==
    IF a = 0 /\ b = 0 THEN 0
    ELSE CHOOSE g \in 1 .. (a + b) :
            /\ Divides(g, a) /\ Divides(g, b)
            /\ \A h \in 1 .. (a + b) : Divides(h, a) /\ Divides(h, b) => h <= g

\* a is a strong probable-prime base of n, for n - 1 = dd * 2^ss
RefSPRP(n, dd, ss, a) ==
    \/ RefPowMod(a, dd, n) = 1
    \/ \E r \in 0 .. (ss - 1) : RefPowMod(a, dd * RefPow(2, r), n) = n - 1

\* --------------------------------------------------------------- claims

\* C1: mod_exp(base, exponent, modulus) returns (base^exponent) mod modulus as
\* computed by repeated multiplication, a value in [0, modulus), for every
\* base >= 0, exponent >= 0 and modulus > 0, exponent = 0 included.
C1_ModExpMatchesReference ==
    (op = "mod_exp" /\ pc = "done") =>
        /\ result = RefPow(args[1], args[2]) % args[3]
        /\ result \in 0 .. (args[3] - 1)

\* C4: a threaded miller_rabin in which no round proves compositeness has
\* executed exactly k rounds, all workers together.
C4_RoundsSumToK ==
    (op = "is_prime_helper" /\ thread /\ pc = "done" /\ mrCalls = 1 /\ result = TRUE)
        => rounds = Rounds

\* C6: next_prime(n) and next_prime_threaded(n) return a value greater than n
\* with no prime strictly between n and it.
C6_NextPrimeSmallest ==
    (op = "next_prime_helper" /\ pc = "done") =>
        /\ result > args[1]
        /\ \A q \in (args[1] + 1) .. (result - 1) : ~IsPrimeRef(q)

\* C7: gcdext(a, b) returns (g, x, y) with g = gcd(a, b) and a*x + b*y = g.
C7_GcdExtBezout ==
    (op = "gcdext" /\ pc = "done") =>
        /\ result[1] = RefGcd(args[1], args[2])
        /\ args[1] * result[2] + args[2] * result[3] = result[1]

\* C5: once a worker of the threaded miller_rabin has died without sending,
\* the call does not pass and does not block forever: it has failed with
\* "A thread failed" (or, at the least, has returned false on another worker's
\* report), or some thread can still take a step.
C5_WorkerFailureSurfaces ==
    crashed > 0 =>
        \/ pc = "panicked"
        \/ (pc = "done" /\ result = FALSE)
        \/ ENABLED NextFault

\* C2: a prime is never rejected, in either mode, and nothing panics: no
\* call ends in a panic or a hang, no worker dies, a direct is_prime_helper
\* call on a prime returns true, every candidate next_prime_helper has stepped
\* over is composite, and a worker testing a prime only ever sends true.
C2_PrimeNeverRejected ==
    /\ pc \notin {"panicked", "hang"}
    /\ crashed = 0
    /\ (op = "is_prime_helper" /\ pc = "done" /\ IsPrimeRef(args[1])) => result = TRUE
    /\ (op = "next_prime_helper" /\ pc # "call") =>
          \A q \in FirstCandidate(args[1]) .. (cand - 1) :
              (q - FirstCandidate(args[1])) % 2 = 0 => ~IsPrimeRef(q)
    /\ (pc \in {"spawn", "recv"} /\ IsPrimeRef(cand)) =>
          \A i \in 1 .. Len(chan) : chan[i] = TRUE

\* a prime >= 5 accepted by the threaded test after all 8 results came in
C2_Witness ==
    /\ op = "is_prime_helper" /\ thread /\ pc = "done"
    /\ args[1] >= 5 /\ IsPrimeRef(args[1])
    /\ result = TRUE /\ Len(got) = SpawnCount /\ mrCalls = 1

\* the results is_prime_helper(n, th) can return, over all witness choices
IsPrimeHelperResults(n, th) ==
    IF SpecialCase(n) # "mr" THEN {SpecialCase(n) = "true"}
    ELSE IF th
    THEN LET w == {o.result : o \in MillerRabinThread(n, Decompose(n).d, Decompose(n).s,
                                                      PerWorkerRounds(Rounds))}
         IN  {\A i \in 1 .. SpawnCount : f[i] : f \in [1 .. SpawnCount -> w]}
    ELSE {o.result : o \in MillerRabinThread(n, Decompose(n).d, Decompose(n).s, Rounds)}

\* C3: for every n is_prime_helper is called with, the threaded and the
\* sequential mode can return the same set of results, and whatever a finished
\* run in one mode returned is a result the other mode can return.
C3_ThreadedEquivalent ==
    /\ (op = "is_prime_helper" /\ pc = "is_prime") =>
          IsPrimeHelperResults(cand, TRUE) = IsPrimeHelperResults(cand, FALSE)
    /\ (op = "is_prime_helper" /\ pc = "done" /\ orphans = 0) =>
          result \in IsPrimeHelperResults(args[1], ~thread)

\* a composite with strong liars in the witness range, passed by the threaded test
C3_Witness ==
    /\ op = "is_prime_helper" /\ thread /\ pc = "done"
    /\ ~IsPrimeRef(args[1]) /\ mrCalls = 1 /\ result = TRUE
    /\ IsPrimeHelperResults(args[1], FALSE) = {TRUE, FALSE}

\* C8: is_prime_helper settles n = 2, n = 3, n < 2 and even n without entering
\* miller_rabin: no decomposition, no worker, no round; and miller_rabin is
\* only ever entered with an odd n >= 5.
C8_SpecialCasesFirst ==
    /\ (op = "is_prime_helper" /\ (args[1] <= 3 \/ args[1] % 2 = 0)) =>
          /\ pc \in {"call", "is_prime", "done"}
          /\ mrCalls = 0 /\ spawned = 0 /\ running = 0 /\ rounds = 0
          /\ d = 0 /\ s = 0 /\ chan = <<>> /\ got = <<>>
          /\ pc = "done" => result = (args[1] \in {2, 3})
    /\ pc = "miller_rabin" => (cand >= 5 /\ cand % 2 = 1)

\* an even number above 2 rejected with miller_rabin never entered
C8_Witness ==
    /\ op = "is_prime_helper" /\ pc = "done"
    /\ args[1] > 2 /\ args[1] % 2 = 0
    /\ result = FALSE /\ mrCalls = 0

\* C9: right after miller_rabin's decomposition, n - 1 = d * 2^s with d odd
\* and s >= 1, and for every witness that can be drawn the round passes
\* exactly when the strong-probable-prime condition holds, comparing at most
\* s - 1 squarings with n - 1; and a sequential test that returned false did
\* so in the round that failed, with no round after it.
C9_RoundIsStrongProbablePrimeTest ==
    /\ (pc = "seq" \/ (pc = "spawn" /\ spawned = 0)) =>
          /\ cand >= 5 /\ d % 2 = 1 /\ s >= 1 /\ d * RefPow(2, s) = cand - 1
          /\ \A a \in WitnessRange(cand) :
                /\ Round(cand, d, s, a).out \in {"pass", "fail"}
                /\ Round(cand, d, s, a).out = "pass" <=> RefSPRP(cand, d, s, a)
                /\ Round(cand, d, s, a).checked <= s - 1
    /\ (op = "is_prime_helper" /\ ~thread /\ pc = "done" /\ mrCalls = 1) =>
          /\ lastA \in WitnessRange(cand)
          /\ result = RefSPRP(cand, d, s, lastA)
          /\ squarings <= s - 1
          /\ rounds \in 1 .. Rounds
          /\ result = TRUE => rounds = Rounds

\* a sequential test ended by a failing round that came after a passing one
C9_Witness ==
    /\ op = "is_prime_helper" /\ ~thread /\ pc = "done" /\ mrCalls = 1
    /\ result = FALSE /\ rounds > 1 /\ rounds < Rounds
    /\ ~RefSPRP(cand, d, s, lastA)

\* what is left to do in a threaded is_prime_helper call
Measure ==
    orphans +
    CASE pc = "call" -> 4 * SpawnCount + 6
      [] pc = "is_prime" -> 4 * SpawnCount + 5
      [] pc = "miller_rabin" -> 4 * SpawnCount + 4
      [] pc \in {"spawn", "recv"} ->
            2 * (SpawnCount - spawned) + running + (SpawnCount - Len(got)) + 1
      [] OTHER -> 0

C10_Safety ==
    /\ crashed = 0
    /\ pc \notin {"panicked", "hang"}
    /\ (pc = "done" /\ orphans = 0) \/ ENABLED NextThreaded
    /\ pc \in {"spawn", "recv"} => \A i \in 1 .. Len(got) : got[i] = TRUE
    /\ (pc = "done" /\ mrCalls = 1) =>
          /\ result = (\A i \in 1 .. Len(got) : got[i])
          /\ result = TRUE =>
                /\ Len(got) = SpawnCount /\ spawned = SpawnCount
                /\ orphans = 0 /\ discarded = 0
          /\ result = FALSE =>
                /\ Len(got) \in 1 .. SpawnCount
                /\ \A i \in 1 .. (Len(got) - 1) : got[i] = TRUE
                /\ orphans + discarded <= SpawnCount - Len(got)

\* C10: with no worker failing, the threaded miller_rabin terminates (it is
\* never blocked before it is done, and every step brings it closer to the
\* end), it returns false on the first false it receives and true only after
\* a true from each of the 8 workers, so its result is the conjunction of what
\* it received, and a worker that finishes after the return neither blocks
\* nor panics.
C10_ThreadedConjunction ==
    /\ []C10_Safety
    /\ [][Measure' < Measure]_vars

\* an early false: the call returned false after a true and a false, and the
\* workers that finished afterwards had their sends discarded
C10_Witness ==
    /\ pc = "done" /\ mrCalls = 1 /\ result = FALSE
    /\ got = <<TRUE, FALSE>>
    /\ discarded > 0 /\ orphans = 0

====
